---------------------------- MODULE Spec2Model ----------------------------
(***************************************************************************)
(* A model of the walker tracker of src/tracker.py (class WalkerTracker)   *)
(* over the tables of src/database.py.                                     *)
(*                                                                         *)
(* Time is counted in whole seconds.  Every call reads the clock once:     *)
(* the successive datetime.utcnow() reads of one call are one instant.     *)
(* Walker ids are the positive integers SQLite hands out; Python's None    *)
(* and SQL's NULL are the value None.                                      *)
(***************************************************************************)
EXTENDS Integers, Sequences, FiniteSets, TLC

VARIABLES
    now,                \* the wall clock, datetime.utcnow()
    config,             \* self.config: tracking.cross_camera_window, images.max_images_per_walker
    walkers,            \* table walkers, row id = index
    detections,         \* table detections, in insertion order
    walk_sessions,      \* table walk_sessions, in insertion order
    walker_images,      \* table walker_images, a set of rows
    recent_detections,  \* self.recent_detections
    files,              \* the image files on disk, by path
    all_images,         \* history: every WalkerImage row ever inserted
    last                \* history: the last call, its walker argument, its result

vars == <<now, config, walkers, detections, walk_sessions, walker_images,
          recent_detections, files, all_images, last>>

----------------------------------------------------------------------------
(* Bounds of the model and constants of the program *)

None == -1

DebounceFloor == 60

MaxCalls == 3

MaxMatchDetections == 4

MaxScenarioDetections == 5

MaxRetentionDetections == 2

MaxRetentionSaves == 3

MaxSessionDetections == 3

MaxAppDetections == 2

MaxStorageDetections == 2

MaxStorageWalkers == 3

Cameras == {"front", "back"}

\* config['cameras'][camera]: each camera's zone and path_name
ZoneOf(camera) == IF camera = "front" THEN "street" ELSE "alley"

PathOf(camera) ==
    IF camera = "front" THEN "north"
    ELSE IF camera = "back" THEN "south" ELSE "loop,east"

\* the cameras of a configuration where one path name has a comma in it
SessionCameras == Cameras \cup {"side"}

\* the values of tracking.cross_camera_window the model is run with
Windows == {30, 90}

\* the values of images.max_images_per_walker the model is run with
ImageLimits == {1, 2}

\* quality scores in tenths (0.5 is the default, 0.7 what main.py passes)
Qualities == {5, 7}

\* the instants at which the clock is read
Instants == {0, 1, 91}

MatchInstants == {0, 1, 30, 61, 91}

ScenarioInstants == {0, 5, 10, 12, 50}

RetentionInstants == {0, 1}

SessionInstants == {0, 1}

AppInstants == {0, 1}

StorageInstants == {0, 1, 91}

----------------------------------------------------------------------------
(* Helpers *)

Range(s) == {s[i] : i \in DOMAIN s}

RECURSIVE SetToSeq(_)
SetToSeq(S) ==
    IF S = {} THEN <<>>
    ELSE LET x == CHOOSE y \in S : TRUE IN <<x>> \o SetToSeq(S \ {x})

\* A stored text is the sequence of the pieces its commas separate; the
\* empty text is the one empty piece.

\* name.split(','): the pieces of one name
Pieces(name) == IF name = "loop,east" THEN <<"loop", "east">> ELSE <<name>>

RECURSIVE Concat(_)
Concat(names) ==
    IF names = <<>> THEN <<>>
    ELSE Pieces(Head(names)) \o Concat(Tail(names))

\* ','.join(names): the stored comma-separated list
Join(S) == IF S = {} THEN <<"">> ELSE Concat(SetToSeq(S))

\* set(text.split(',') if text else [])
Split(text) == IF text = <<"">> THEN {} ELSE Range(text)

EnterDetections == {i \in DOMAIN detections : detections[i].event_type = "enter"}

----------------------------------------------------------------------------
(* WalkerTracker._match_to_walker *)

\* mutants of the match criteria: the 60 second floor asked of every camera;
\* the dog flag not compared; no same-camera branch
entry_matches_always_debounced(d, camera, has_dog, time_diff) ==
    /\ d.has_dog = has_dog
    /\ time_diff > DebounceFloor

entry_matches_ignoring_dog(d, camera, has_dog, time_diff) ==
    \/ d.camera # camera
    \/ time_diff > DebounceFloor

entry_matches_cross_camera_only(d, camera, has_dog, time_diff) ==
    /\ d.has_dog = has_dog
    /\ d.camera # camera

\* mutant: a same-camera entry matches at any age
entry_matches_any_age(d, camera, has_dog, time_diff) ==
    d.has_dog = has_dog

\* the match criteria applied to one entry that is inside the window
entry_matches(d, camera, has_dog, time_diff) ==
    /\ d.has_dog = has_dog
    /\ \/ d.camera # camera
       \/ time_diff > DebounceFloor

\* mutant: no entry is ever skipped as too old
in_window_never_expires(d, cutoff_time) == TRUE

\* an entry older than the cutoff is skipped
in_window(d, cutoff_time) == ~(d.timestamp < cutoff_time)

\* mutant: the list is scanned oldest first
RECURSIVE scan_recent_oldest_first(_, _, _, _, _)
scan_recent_oldest_first(i, camera, has_dog, cutoff_time, utcnow) ==
    IF i = 0 THEN None
    ELSE LET d == recent_detections[i]
             older == scan_recent_oldest_first(i - 1, camera, has_dog,
                                               cutoff_time, utcnow)
         IN
         IF older # None THEN older
         ELSE IF /\ in_window(d, cutoff_time)
                 /\ entry_matches(d, camera, has_dog, utcnow - d.timestamp)
           THEN d.walker_id
         ELSE None

RECURSIVE scan_recent(_, _, _, _, _)
scan_recent(i, camera, has_dog, cutoff_time, utcnow) ==
    IF i = 0 THEN None
    ELSE LET d == recent_detections[i] IN
         IF ~in_window(d, cutoff_time)
           THEN scan_recent(i - 1, camera, has_dog, cutoff_time, utcnow)
         ELSE IF entry_matches(d, camera, has_dog, utcnow - d.timestamp)
           THEN d.walker_id
         ELSE scan_recent(i - 1, camera, has_dog, cutoff_time, utcnow)

match_to_walker(camera, zone, has_dog, utcnow) ==
    scan_recent(Len(recent_detections), camera, has_dog,
                utcnow - config.cross_camera_window, utcnow)

(* WalkerTracker._clean_recent_detections *)

\* mutant: the window is never pruned
clean_recent_detections_skipped(recent, utcnow) == recent

\* mutant: an entry exactly as old as the window is dropped too
clean_recent_detections_strict(recent, utcnow) ==
    SelectSeq(recent, LAMBDA d : d.timestamp > utcnow - config.cross_camera_window)

\* mutant: the entries are pruned at the 60 second floor, not at the window
clean_recent_detections_by_floor(recent, utcnow) ==
    SelectSeq(recent, LAMBDA d : d.timestamp >= utcnow - DebounceFloor)

clean_recent_detections(recent, utcnow) ==
    SelectSeq(recent, LAMBDA d : d.timestamp >= utcnow - config.cross_camera_window)

----------------------------------------------------------------------------
(* WalkerTracker._update_walk_session, on the table given *)

open_sessions(sessions, walker_id) ==
    {i \in DOMAIN sessions :
        sessions[i].walker_id = walker_id /\ sessions[i].end_time = None}

\* query(...).first(): the first row in row order
first_open(sessions, walker_id) ==
    IF open_sessions(sessions, walker_id) = {} THEN None
    ELSE CHOOSE i \in open_sessions(sessions, walker_id) :
            \A j \in open_sessions(sessions, walker_id) : i <= j

\* mutant: a session row is added without looking for an open one
update_walk_session_always_new(sessions, walker_id, camera, path_name, has_dog, utcnow) ==
    Append(sessions,
       [walker_id |-> walker_id, start_time |-> utcnow, end_time |-> None,
        cameras_visited |-> Join({camera}),
        paths_taken |-> Join({path_name}), has_dog |-> has_dog])

update_walk_session(sessions, walker_id, camera, path_name, has_dog, utcnow) ==
    LET active == first_open(sessions, walker_id) IN
    IF active # None
      THEN [sessions EXCEPT ![active] =
              [@ EXCEPT !.cameras_visited = Join(Split(@) \cup {camera}),
                        !.paths_taken = Join(Split(@) \cup {path_name}),
                        !.has_dog = @ \/ has_dog]]
      ELSE Append(sessions,
              [walker_id |-> walker_id, start_time |-> utcnow, end_time |-> None,
               cameras_visited |-> Join({camera}),
               paths_taken |-> Join({path_name}), has_dog |-> has_dog])

----------------------------------------------------------------------------
(* WalkerTracker.process_detection *)

\* mutant: the early return is missing, a detection without a person goes on
no_person_never(has_person) == FALSE

\* if not has_person: return None
no_person(has_person) == ~has_person

\* mutant: a match leaves the Walker row as it was
walker_rows_untouched(matched, utcnow) ==
    IF matched = None
      THEN Append(walkers, [first_seen |-> utcnow, last_seen |-> utcnow,
                            total_walks |-> 1])
      ELSE walkers

\* the Walker table after the create (no match) or the update (match)
walker_rows(matched, utcnow) ==
    IF matched = None
      THEN Append(walkers, [first_seen |-> utcnow, last_seen |-> utcnow,
                            total_walks |-> 1])
      ELSE [walkers EXCEPT ![matched].last_seen = utcnow]

\* mutant: a new walker is given the largest id there is
walker_id_of_reused(matched) == IF matched = None THEN Len(walkers) ELSE matched

\* walker.id of the matched or the created Walker
walker_id_of(matched) == IF matched = None THEN Len(walkers) + 1 ELSE matched

\* what a detection with a person writes: Walker, Detection, evidence
\* entry, pruning, session
detection_writes(camera, zone, path_name, has_dog, utcnow) ==
    LET matched == match_to_walker(camera, zone, has_dog, utcnow)
        walker_id == walker_id_of(matched)
    IN
    /\ walkers' = walker_rows(matched, utcnow)
    /\ detections' = Append(detections,
          [walker_id |-> walker_id, camera |-> camera, zone |-> zone,
           path_name |-> path_name, timestamp |-> utcnow,
           event_type |-> "enter", has_dog |-> has_dog])
    /\ recent_detections' = clean_recent_detections(
          Append(recent_detections,
             [walker_id |-> walker_id, camera |-> camera,
              timestamp |-> utcnow, has_dog |-> has_dog]), utcnow)
    /\ walk_sessions' =
          update_walk_session(walk_sessions, walker_id, camera, path_name,
                              has_dog, utcnow)

process_detection(camera, zone, path_name, has_person, has_dog, utcnow) ==
    IF no_person(has_person)
      THEN /\ last' = [op |-> "process_detection", arg |-> None, ret |-> None,
                       has_person |-> has_person]
           /\ UNCHANGED <<config, walkers, detections, walk_sessions,
                          walker_images, recent_detections, all_images, files>>
      ELSE
        /\ detection_writes(camera, zone, path_name, has_dog, utcnow)
        /\ last' = [op |-> "process_detection", arg |-> None,
                    ret |-> walker_id_of(match_to_walker(camera, zone, has_dog, utcnow)),
                    has_person |-> has_person]
        /\ UNCHANGED <<config, walker_images, all_images, files>>

(* WalkerTracker.process_detection when a commit raises: failed names the *)
(* write whose commit fails, the walker, the detection or the session    *)

Failures == {"none", "walker", "detection", "session"}

\* mutant: the evidence entry is appended before the Detection is committed
writes_done_window_first(failed) ==
    CASE failed = "walker" -> {}
      [] failed = "detection" -> {"walker", "window"}
      [] failed = "session" -> {"walker", "detection", "window"}
      [] OTHER -> {"walker", "detection", "window", "session"}

\* the writes completed when the commit of the failed one raises: the
\* statements run in the order walker, detection, window, session
writes_done(failed) ==
    CASE failed = "walker" -> {}
      [] failed = "detection" -> {"walker"}
      [] failed = "session" -> {"walker", "detection", "window"}
      [] OTHER -> {"walker", "detection", "window", "session"}

process_detection_failing(failed, camera, zone, path_name, has_dog, utcnow) ==
    LET matched == match_to_walker(camera, zone, has_dog, utcnow)
        walker_id == walker_id_of(matched)
        done == writes_done(failed)
    IN
    /\ walkers' =
          IF "walker" \in done THEN walker_rows(matched, utcnow) ELSE walkers
    /\ detections' =
          IF "detection" \in done
            THEN Append(detections,
                   [walker_id |-> walker_id, camera |-> camera, zone |-> zone,
                    path_name |-> path_name, timestamp |-> utcnow,
                    event_type |-> "enter", has_dog |-> has_dog])
            ELSE detections
    /\ recent_detections' =
          IF "window" \in done
            THEN clean_recent_detections(
                   Append(recent_detections,
                      [walker_id |-> walker_id, camera |-> camera,
                       timestamp |-> utcnow, has_dog |-> has_dog]), utcnow)
            ELSE recent_detections
    /\ walk_sessions' =
          IF "session" \in done
            THEN update_walk_session(walk_sessions, walker_id, camera,
                                     path_name, has_dog, utcnow)
            ELSE walk_sessions
    /\ last' = [op |-> "process_detection", arg |-> None,
                ret |-> IF failed = "none" THEN walker_id ELSE None,
                has_person |-> TRUE, failed |-> failed]
    /\ UNCHANGED <<config, walker_images, all_images, files>>

(* WalkerTracker.record_exit *)

\* mutant: the exit also ends the walker's open session
record_exit_closing(walker_id, camera, zone, path_name, utcnow) ==
    LET session == first_open(walk_sessions, walker_id) IN
    /\ detections' = Append(detections,
          [walker_id |-> walker_id, camera |-> camera, zone |-> zone,
           path_name |-> path_name, timestamp |-> utcnow,
           event_type |-> "leave", has_dog |-> FALSE])
    /\ walk_sessions' =
          IF session # None
            THEN [walk_sessions EXCEPT ![session].end_time = utcnow]
            ELSE walk_sessions
    /\ last' = [op |-> "record_exit", arg |-> walker_id, ret |-> None]
    /\ UNCHANGED <<config, walkers, walker_images, recent_detections,
                   all_images, files>>

\* mutant: the exit passes its has_dog=False on to the walker's open session
record_exit_clearing_dog(walker_id, camera, zone, path_name, utcnow) ==
    LET session == first_open(walk_sessions, walker_id) IN
    /\ detections' = Append(detections,
          [walker_id |-> walker_id, camera |-> camera, zone |-> zone,
           path_name |-> path_name, timestamp |-> utcnow,
           event_type |-> "leave", has_dog |-> FALSE])
    /\ walk_sessions' =
          IF session # None
            THEN [walk_sessions EXCEPT ![session].has_dog = FALSE]
            ELSE walk_sessions
    /\ last' = [op |-> "record_exit", arg |-> walker_id, ret |-> None]
    /\ UNCHANGED <<config, walkers, walker_images, recent_detections,
                   all_images, files>>

\* mutant: the exit overwrites the walker's latest Detection instead of
\* adding one
record_exit_rewriting(walker_id, camera, zone, path_name, utcnow) ==
    LET mine == {j \in DOMAIN detections : detections[j].walker_id = walker_id}
        leave == [walker_id |-> walker_id, camera |-> camera, zone |-> zone,
                  path_name |-> path_name, timestamp |-> utcnow,
                  event_type |-> "leave", has_dog |-> FALSE]
    IN
    /\ detections' =
          IF mine # {}
            THEN [detections EXCEPT
                    ![CHOOSE j \in mine : \A k \in mine : k <= j] = leave]
            ELSE Append(detections, leave)
    /\ last' = [op |-> "record_exit", arg |-> walker_id, ret |-> None]
    /\ UNCHANGED <<config, walkers, walk_sessions, walker_images,
                   recent_detections, all_images, files>>

\* mutant: the exit is also entered in the evidence window
record_exit_into_window(walker_id, camera, zone, path_name, utcnow) ==
    /\ detections' = Append(detections,
          [walker_id |-> walker_id, camera |-> camera, zone |-> zone,
           path_name |-> path_name, timestamp |-> utcnow,
           event_type |-> "leave", has_dog |-> FALSE])
    /\ recent_detections' = Append(recent_detections,
          [walker_id |-> walker_id, camera |-> camera,
           timestamp |-> utcnow, has_dog |-> FALSE])
    /\ last' = [op |-> "record_exit", arg |-> walker_id, ret |-> None]
    /\ UNCHANGED <<config, walkers, walk_sessions, walker_images,
                   all_images, files>>

record_exit(walker_id, camera, zone, path_name, utcnow) ==
    /\ detections' = Append(detections,
          [walker_id |-> walker_id, camera |-> camera, zone |-> zone,
           path_name |-> path_name, timestamp |-> utcnow,
           event_type |-> "leave", has_dog |-> FALSE])
    /\ last' = [op |-> "record_exit", arg |-> walker_id, ret |-> None]
    /\ UNCHANGED <<config, walkers, walk_sessions, walker_images,
                   recent_detections, all_images, files>>

\* mutant: the walker's latest session gets the end time, open or not
close_session_reclosing(walker_id, utcnow) ==
    LET mine == {i \in DOMAIN walk_sessions : walk_sessions[i].walker_id = walker_id} IN
    /\ walk_sessions' =
          IF mine # {}
            THEN [walk_sessions EXCEPT
                    ![CHOOSE i \in mine : \A j \in mine : j <= i].end_time = utcnow]
            ELSE walk_sessions
    /\ last' = [op |-> "close_session", arg |-> walker_id, ret |-> None]
    /\ UNCHANGED <<config, walkers, detections, walker_images,
                   recent_detections, all_images, files>>

(* WalkerTracker.close_session *)
close_session(walker_id, utcnow) ==
    LET session == first_open(walk_sessions, walker_id) IN
    /\ walk_sessions' =
          IF session # None
            THEN [walk_sessions EXCEPT ![session].end_time = utcnow]
            ELSE walk_sessions
    /\ last' = [op |-> "close_session", arg |-> walker_id, ret |-> None]
    /\ UNCHANGED <<config, walkers, detections, walker_images,
                   recent_detections, all_images, files>>

----------------------------------------------------------------------------
(* WalkerTracker._cleanup_old_images *)

\* mutant: the query has no walker filter
images_of_anyone(images, walker_id) == images

images_of(images, walker_id) == {img \in images : img.walker_id = walker_id}

\* order_by(quality_score.desc(), timestamp.desc()): a comes strictly before b
ranks_before(a, b) ==
    \/ a.quality_score > b.quality_score
    \/ a.quality_score = b.quality_score /\ a.timestamp > b.timestamp

\* mutant: the slice starts one row late, images[max_images + 1:]
kept_choices_off_by_one(images, walker_id, max_images) ==
    LET mine == images_of(images, walker_id) IN
    IF Cardinality(mine) > max_images + 1
      THEN {K \in SUBSET mine :
              /\ Cardinality(K) = max_images + 1
              /\ \A k \in K, e \in mine \ K : ~ranks_before(e, k)}
      ELSE {mine}

\* mutant: the query is ordered by timestamp alone, newest first
kept_choices_newest_first(images, walker_id, max_images) ==
    LET mine == images_of(images, walker_id) IN
    IF Cardinality(mine) > max_images
      THEN {K \in SUBSET mine :
              /\ Cardinality(K) = max_images
              /\ \A k \in K, e \in mine \ K : ~(e.timestamp > k.timestamp)}
      ELSE {mine}

\* images[:max_images] of the ordered query; rows that tie come in either order
kept_choices(images, walker_id, max_images) ==
    LET mine == images_of(images, walker_id) IN
    IF Cardinality(mine) > max_images
      THEN {K \in SUBSET mine :
              /\ Cardinality(K) = max_images
              /\ \A k \in K, e \in mine \ K : ~ranks_before(e, k)}
      ELSE {mine}

\* the table after db.delete of every row beyond the cutoff
cleanup_old_images(images, walker_id, kept) ==
    (images \ images_of(images, walker_id)) \cup kept

\* mutant: the rows are deleted, their files are left on disk
remove_files_skipped(disk, images, walker_id, kept) == disk

\* the disk after os.remove of every evicted row's file that exists
remove_files(disk, images, walker_id, kept) ==
    disk \ {img.image_path : img \in images_of(images, walker_id) \ kept}

(* WalkerTracker.save_walker_image *)

\* SQLite's INTEGER PRIMARY KEY: one more than the largest id in the table
next_image_id(images) ==
    IF images = {} THEN 1
    ELSE 1 + (CHOOSE m \in {img.id : img \in images} :
                 \A img \in images : img.id <= m)

\* what save_walker_image writes: the row, then the eviction
image_writes(walker_id, image_path, image_type, camera, quality_score, disk, utcnow) ==
    LET walker_image ==
            [id |-> next_image_id(walker_images), walker_id |-> walker_id,
             image_path |-> image_path, image_type |-> image_type,
             timestamp |-> utcnow, camera |-> camera,
             quality_score |-> quality_score]
        inserted == walker_images \cup {walker_image}
    IN
    /\ all_images' = all_images \cup {walker_image}
    /\ \E kept \in kept_choices(inserted, walker_id, config.max_images_per_walker) :
          /\ walker_images' = cleanup_old_images(inserted, walker_id, kept)
          /\ files' = remove_files(disk, inserted, walker_id, kept)

save_walker_image(walker_id, image_path, image_type, camera, quality_score, disk, utcnow) ==
    /\ image_writes(walker_id, image_path, image_type, camera, quality_score,
                    disk, utcnow)
    /\ last' = [op |-> "save_walker_image", arg |-> walker_id, ret |-> None]
    /\ UNCHANGED <<config, walkers, detections, walk_sessions, recent_detections>>

(* DogWalkerTrackerApp._capture_latest_frame: the frame is written to a path *)
(* named after walker, camera, type and second, then the row is saved        *)
image_filename(walker_id, camera, image_type, utcnow) ==
    <<walker_id, camera, image_type, utcnow>>

capture_latest_frame(walker_id, camera, image_type, quality_score, utcnow) ==
    LET save_path == image_filename(walker_id, camera, image_type, utcnow) IN
    save_walker_image(walker_id, save_path, image_type, camera, quality_score,
                      files \cup {save_path}, utcnow)

----------------------------------------------------------------------------
(* DogWalkerTrackerApp: the events of the MQTT subscriptions *)

\* config['cameras']: the two cameras, and one whose entry lacks path_name
CamerasConfig ==
    [c \in Cameras \cup {"porch"} |->
        IF c = "porch" THEN [zone |-> "yard"]
        ELSE [zone |-> ZoneOf(c), path_name |-> PathOf(c)]]

\* the topics subscribed to: frigate/events, frigate/+/person, frigate/+/dog
Topics ==
    {<<"frigate", "events">>} \cup
    {<<"frigate", camera, object_type>> :
        camera \in Cameras \cup {"porch", "garage"},
        object_type \in {"person", "dog"}}

\* json.loads of the message: a number, true, a string, or an event record
Payloads ==
    {[type |-> "int", value |-> v] : v \in {-1, 0, 1}} \cup
    {[type |-> "bool", value |-> 1], [type |-> "str", value |-> 1]} \cup
    {[type |-> "dict", value |-> 0, event |-> "new", camera |-> "front",
      label |-> "person", id |-> "e1", has_snapshot |-> FALSE],
     [type |-> "dict", value |-> 0, event |-> "end", camera |-> "front",
      label |-> "person", id |-> "e1", has_snapshot |-> TRUE]}

\* isinstance(payload, int): bool is a subclass of int, True counts as 1
isinstance_int(payload) == payload.type \in {"int", "bool"}

\* count = payload if isinstance(payload, int) else 0
count_of(payload) == IF isinstance_int(payload) THEN payload.value ELSE 0

\* mutant: the label is not looked at, a dog count is taken for a person
detection_outcome_any_label(camera, object_type, payload) ==
    IF camera \notin DOMAIN CamerasConfig THEN "ignored"
    ELSE IF ~({"zone", "path_name"} \subseteq DOMAIN CamerasConfig[camera])
      THEN "raised"
    ELSE IF count_of(payload) > 0 THEN "person"
    ELSE "ignored"

\* _process_detection: the event is ignored, a KeyError is raised, or the
\* tracker is called for a person
detection_outcome(camera, object_type, payload) ==
    IF camera \notin DOMAIN CamerasConfig THEN "ignored"
    ELSE IF ~({"zone", "path_name"} \subseteq DOMAIN CamerasConfig[camera])
      THEN "raised"
    ELSE IF object_type = "person" /\ count_of(payload) > 0 THEN "person"
    ELSE "ignored"

\* _process_event: only an ended event with a snapshot leads to a download;
\* a payload that is no dict has no .get
event_outcome(payload) ==
    IF payload.type # "dict" THEN "raised"
    ELSE IF /\ payload.event = "end"
            /\ payload.has_snapshot
            /\ payload.label \in {"person", "dog"}
      THEN "snapshot"
    ELSE "ignored"

\* _capture_event_snapshot: {camera}_{label}_{timestamp}_{event_id}.jpg
snapshot_filename(camera, label, utcnow, event_id) ==
    <<None, camera, label, utcnow, event_id>>

\* except Exception: the error is logged, nothing reaches the MQTT client
except_Exception(outcome) == IF outcome = "raised" THEN "logged" ELSE outcome

(* DogWalkerTrackerApp._handle_frigate_event; success is whether the *)
(* download from Frigate answered 200                                  *)
handle_frigate_event(topic, payload, success, utcnow) ==
    LET outcome ==
            IF topic = <<"frigate", "events">> THEN event_outcome(payload)
            ELSE IF Len(topic) = 3 /\ topic[1] = "frigate"
              THEN detection_outcome(topic[2], topic[3], payload)
            ELSE "ignored"
    IN
    /\ CASE outcome = "person" ->
              LET camera == topic[2]
                  camera_config == CamerasConfig[camera]
                  walker_id == walker_id_of(
                      match_to_walker(camera, camera_config.zone, FALSE, utcnow))
                  save_path == image_filename(walker_id, camera, "person", utcnow)
              IN
              /\ detection_writes(camera, camera_config.zone,
                                  camera_config.path_name, FALSE, utcnow)
              /\ IF success
                    THEN image_writes(walker_id, save_path, "person", camera, 7,
                                      files \cup {save_path}, utcnow)
                    ELSE UNCHANGED <<walker_images, all_images, files>>
         [] outcome = "snapshot" ->
              /\ files' =
                    IF success
                      THEN files \cup {snapshot_filename(payload.camera,
                                          payload.label, utcnow, payload.id)}
                      ELSE files
              /\ UNCHANGED <<walkers, detections, walk_sessions,
                             recent_detections, walker_images, all_images>>
         [] OTHER ->
              UNCHANGED <<walkers, detections, walk_sessions, recent_detections,
                          walker_images, all_images, files>>
    /\ last' = [op |-> "handle_frigate_event", arg |-> None, ret |-> None,
                topic |-> topic, payload |-> payload,
                outcome |-> except_Exception(outcome)]
    /\ UNCHANGED config

----------------------------------------------------------------------------
(* The clock: a call reads an instant no earlier than the last one read *)

Clock(instants, utcnow) ==
    /\ utcnow \in instants
    /\ utcnow >= now
    /\ now' = utcnow

----------------------------------------------------------------------------
(* The calls of the surrounding application, one at a time *)

\* the rows written so far: one per accepted detection, exit or image
Calls == Len(detections) + Cardinality(all_images)

ProcessDetection ==
    /\ Calls < MaxCalls
    /\ \E utcnow \in Instants, camera \in Cameras,
          has_person \in BOOLEAN, has_dog \in BOOLEAN :
          /\ Clock(Instants, utcnow)
          /\ process_detection(camera, ZoneOf(camera), PathOf(camera),
                               has_person, has_dog, utcnow)

RecordExit ==
    /\ Calls < MaxCalls
    /\ \E utcnow \in Instants, walker_id \in 1..Len(walkers), camera \in Cameras :
          /\ Clock(Instants, utcnow)
          /\ record_exit(walker_id, camera, ZoneOf(camera), PathOf(camera), utcnow)

\* every walker known, or walker 1 while no walker is known
CloseSession ==
    \E utcnow \in Instants,
       walker_id \in 1..(IF walkers = <<>> THEN 1 ELSE Len(walkers)) :
          /\ Clock(Instants, utcnow)
          /\ close_session(walker_id, utcnow)

SaveWalkerImage ==
    /\ Calls < MaxCalls
    /\ \E utcnow \in Instants, walker_id \in 1..Len(walkers) :
          /\ Clock(Instants, utcnow)
          /\ capture_latest_frame(walker_id, "front", "person", 7, utcnow)

InitWith(windows, limits) ==
    /\ now = 0
    /\ config \in [cross_camera_window : windows, max_images_per_walker : limits]
    /\ walkers = <<>>
    /\ detections = <<>>
    /\ walk_sessions = <<>>
    /\ walker_images = {}
    /\ recent_detections = <<>>
    /\ files = {}
    /\ all_images = {}
    /\ last = [op |-> "init", arg |-> None, ret |-> None]

Init == InitWith({90}, {1})

Next == ProcessDetection \/ RecordExit \/ CloseSession \/ SaveWalkerImage

Spec == Init /\ [][Next]_vars

----------------------------------------------------------------------------
(* Identity matching alone: accepted and rejected detections, more of them *)

MatchDetection ==
    /\ Len(detections) < MaxMatchDetections
    /\ \E utcnow \in MatchInstants, camera \in Cameras,
          has_person \in BOOLEAN, has_dog \in BOOLEAN :
          /\ Clock(MatchInstants, utcnow)
          /\ process_detection(camera, ZoneOf(camera), PathOf(camera),
                               has_person, has_dog, utcnow)

SpecMatch == InitWith(Windows, {1}) /\ [][MatchDetection]_vars

(* The scenario's configuration and instants, any camera and dog flag *)

ScenarioDetection ==
    /\ Len(detections) < MaxScenarioDetections
    /\ \E utcnow \in ScenarioInstants, camera \in Cameras, has_dog \in BOOLEAN :
          /\ Clock(ScenarioInstants, utcnow)
          /\ process_detection(camera, ZoneOf(camera), PathOf(camera),
                               TRUE, has_dog, utcnow)

SpecScenario == InitWith({30}, {1}) /\ [][ScenarioDetection]_vars

(* Image retention: walkers found as main.py finds them, then their images *)

RetentionDetection ==
    /\ Len(detections) < MaxRetentionDetections
    /\ \E utcnow \in RetentionInstants, camera \in Cameras :
          /\ Clock(RetentionInstants, utcnow)
          /\ process_detection(camera, ZoneOf(camera), PathOf(camera),
                               TRUE, FALSE, utcnow)

RetentionSave ==
    /\ Cardinality(all_images) < MaxRetentionSaves
    /\ \E utcnow \in RetentionInstants, walker_id \in 1..Len(walkers),
          camera \in Cameras, quality_score \in Qualities :
          /\ Clock(RetentionInstants, utcnow)
          /\ capture_latest_frame(walker_id, camera, "person", quality_score, utcnow)

NextRetention == RetentionDetection \/ RetentionSave

SpecRetention == InitWith({30}, ImageLimits) /\ [][NextRetention]_vars

(* The application: every event the subscriptions can deliver *)

AppEvent ==
    /\ Len(detections) < MaxAppDetections
    /\ \E utcnow \in AppInstants, topic \in Topics, payload \in Payloads,
          success \in BOOLEAN :
          /\ Clock(AppInstants, utcnow)
          /\ handle_frigate_event(topic, payload, success, utcnow)

SpecApp == InitWith({90}, {1}) /\ [][AppEvent]_vars

(* Storage failures: any commit of a detection may raise *)

StorageDetection ==
    /\ Len(detections) < MaxStorageDetections
    /\ Len(walkers) < MaxStorageWalkers
    /\ \E utcnow \in StorageInstants, camera \in Cameras, has_dog \in BOOLEAN,
          failed \in Failures :
          /\ Clock(StorageInstants, utcnow)
          /\ process_detection_failing(failed, camera, ZoneOf(camera),
                                       PathOf(camera), has_dog, utcnow)

SpecStorage == InitWith({90}, {1}) /\ [][StorageDetection]_vars

(* Walk sessions: detections on three cameras, sessions closed in between *)

SessionDetection ==
    /\ Len(detections) < MaxSessionDetections
    /\ \E utcnow \in SessionInstants, camera \in SessionCameras,
          has_dog \in BOOLEAN :
          /\ Clock(SessionInstants, utcnow)
          /\ process_detection(camera, ZoneOf(camera), PathOf(camera),
                               TRUE, has_dog, utcnow)

SessionClose ==
    \E utcnow \in SessionInstants, walker_id \in 1..Len(walkers) :
          /\ Clock(SessionInstants, utcnow)
          /\ close_session(walker_id, utcnow)

NextSession == SessionDetection \/ SessionClose

SpecSession == InitWith({90}, {1}) /\ [][NextSession]_vars

----------------------------------------------------------------------------
(* Reading the detections table as the record of the calls: the i-th row is *)
(* the i-th accepted call, its walker_id is what the call returned          *)

Enters == EnterDetections

EarlierEnters(j) == {i \in Enters : i < j}

\* the newest evidence entry there was when call j was made, if any
NewestBefore(j) ==
    CHOOSE i \in EarlierEnters(j) : \A k \in EarlierEnters(j) : k <= i

Gap(i, j) == detections[j].timestamp - detections[i].timestamp

InsideWindow(i, j) == Gap(i, j) <= config.cross_camera_window

SameCameraAndDog(i, j) ==
    /\ detections[i].camera = detections[j].camera
    /\ detections[i].has_dog = detections[j].has_dog

\* call j made a new Walker record, with an id no earlier call returned
CreatedWalker(j) ==
    /\ \A i \in EarlierEnters(j) : detections[i].walker_id # detections[j].walker_id
    /\ detections[j].walker_id \in DOMAIN walkers
    /\ walkers[detections[j].walker_id].first_seen = detections[j].timestamp

----------------------------------------------------------------------------
(* C1. Debounce: an accepted detection on the same camera and with the same *)
(* dog flag as the newest evidence, less than 60 seconds after it (and with *)
(* it still inside the window), gets the same walker id and makes no Walker *)
C1_Debounce ==
    \A j \in Enters : EarlierEnters(j) # {} =>
        LET i == NewestBefore(j) IN
        (SameCameraAndDog(i, j) /\ Gap(i, j) < DebounceFloor /\ InsideWindow(i, j))
            => detections[j].walker_id = detections[i].walker_id

(* C2. Cross-camera join: an accepted detection on a camera other than that *)
(* of the newest evidence entry, with the same dog flag and with that entry *)
(* still inside the window, gets that entry's walker id, however short the  *)
(* time between them                                                        *)
CrossCameraOfNewest(j) ==
    /\ EarlierEnters(j) # {}
    /\ detections[NewestBefore(j)].camera # detections[j].camera
    /\ detections[NewestBefore(j)].has_dog = detections[j].has_dog
    /\ InsideWindow(NewestBefore(j), j)

C2_CrossCameraJoin ==
    \A j \in Enters : CrossCameraOfNewest(j) =>
        detections[j].walker_id = detections[NewestBefore(j)].walker_id

\* a join one second after the newest evidence, and one in the same second
C2_Witness ==
    /\ \E j \in Enters : /\ CrossCameraOfNewest(j)
                         /\ Gap(NewestBefore(j), j) = 1
                         /\ detections[j].walker_id = detections[NewestBefore(j)].walker_id
    /\ \E j \in Enters : /\ CrossCameraOfNewest(j)
                         /\ Gap(NewestBefore(j), j) = 0

(* C3. Dog-status override: two consecutive accepted detections with        *)
(* opposite dog flags get distinct walker ids, on any cameras and however   *)
(* close in time; and no evidence entry whose dog flag differs from that of *)
(* the latest detection carries the id the detection was given              *)
C3_DogStatusOverride ==
    /\ \A j \in Enters : EarlierEnters(j) # {} =>
          (detections[NewestBefore(j)].has_dog # detections[j].has_dog
              => detections[NewestBefore(j)].walker_id # detections[j].walker_id)
    /\ Enters # {} =>
          LET j == CHOOSE k \in Enters : \A m \in Enters : m <= k IN
          \A e \in Range(recent_detections) :
              e.has_dog # detections[j].has_dog => e.walker_id # detections[j].walker_id

\* opposite flags in the same second on two cameras, where equal flags would join
C3_Witness ==
    \E j \in Enters :
        /\ EarlierEnters(j) # {}
        /\ detections[NewestBefore(j)].has_dog # detections[j].has_dog
        /\ detections[NewestBefore(j)].camera # detections[j].camera
        /\ Gap(NewestBefore(j), j) = 0
        /\ detections[NewestBefore(j)].walker_id # detections[j].walker_id
        /\ Len(recent_detections) >= 2

(* C4. Window expiry: an accepted detection made when every evidence entry  *)
(* is older than cross_camera_window seconds, or when there is none, makes  *)
(* a new Walker record and gets an id no earlier call returned              *)
AllEvidenceExpired(j) == \A i \in EarlierEnters(j) : ~InsideWindow(i, j)

C4_WindowExpiry ==
    \A j \in Enters : AllEvidenceExpired(j) => CreatedWalker(j)

\* a detection after expiry that repeats an earlier camera and dog flag
C4_Witness ==
    \E j \in Enters :
        /\ EarlierEnters(j) # {}
        /\ AllEvidenceExpired(j)
        /\ \E i \in EarlierEnters(j) :
              /\ detections[i].has_dog = detections[j].has_dog
              /\ detections[i].camera # detections[j].camera
        /\ CreatedWalker(j)
        /\ Len(walkers) >= 2

(* C5. Re-trigger after gap, as the specification states it: with d1 the    *)
(* only evidence inside the window, a detection on d1's camera with d1's    *)
(* dog flag at least 60 seconds after d1 gets d1's walker id                *)
OnlyEvidence(i, j) ==
    /\ i \in EarlierEnters(j)
    /\ InsideWindow(i, j)
    /\ \A k \in EarlierEnters(j) \ {i} : ~InsideWindow(k, j)

Scenario ==
    << [camera |-> "front", has_dog |-> FALSE, timestamp |-> 0],
       [camera |-> "back",  has_dog |-> FALSE, timestamp |-> 5],
       [camera |-> "front", has_dog |-> FALSE, timestamp |-> 10],
       [camera |-> "front", has_dog |-> TRUE,  timestamp |-> 12],
       [camera |-> "front", has_dog |-> FALSE, timestamp |-> 50] >>

ScenarioWalkers == <<1, 1, 1, 2, 3>>

\* the first n accepted calls were the first n events of the scenario
ScenarioSoFar(n) ==
    /\ Len(detections) >= n
    /\ \A k \in 1..n :
          /\ detections[k].event_type = "enter"
          /\ detections[k].camera = Scenario[k].camera
          /\ detections[k].has_dog = Scenario[k].has_dog
          /\ detections[k].timestamp = Scenario[k].timestamp

C9_Scenario ==
    \A n \in 1..Len(Scenario) : ScenarioSoFar(n) =>
        /\ detections[n].walker_id = ScenarioWalkers[n]
        /\ (n = Len(Scenario) /\ Len(detections) = n) => Len(walkers) = 3

C9_Witness ==
    /\ ScenarioSoFar(Len(Scenario))
    /\ Len(detections) = Len(Scenario)
    /\ config.cross_camera_window = 30

(* C6. Session invariant: in every state reached by process_detection,     *)
(* record_exit, close_session and save_walker_image calls made one at a     *)
(* time, each walker id has at most one WalkSession whose end_time is null  *)
SessionWalkers == {walk_sessions[i].walker_id : i \in DOMAIN walk_sessions}

C6_OneOpenSession ==
    \A w \in SessionWalkers : Cardinality(open_sessions(walk_sessions, w)) <= 1

\* a walker on its second session after a close, with an exit recorded
C6_Witness ==
    /\ \E w \in SessionWalkers :
          /\ Cardinality(open_sessions(walk_sessions, w)) = 1
          /\ \E i \in DOMAIN walk_sessions :
                walk_sessions[i].walker_id = w /\ walk_sessions[i].end_time # None
    /\ \E i \in DOMAIN detections : detections[i].event_type = "leave"

(* C10. close_session for a walker with no open session changes nothing:    *)
(* every WalkSession, Walker, Detection, image and the evidence window stay *)
(* as they were, so a second close leaves the first close's end_time alone  *)
C10_CloseWithoutOpenSession ==
    [][ (last'.op = "close_session" /\ open_sessions(walk_sessions, last'.arg) = {})
           => UNCHANGED <<walk_sessions, walkers, detections, recent_detections,
                          walker_images, files>> ]_vars

\* the last call was a close for a walker whose session an earlier call had closed
C10_Witness ==
    /\ last.op = "close_session"
    /\ open_sessions(walk_sessions, last.arg) = {}
    /\ \E i \in DOMAIN walk_sessions :
          /\ walk_sessions[i].walker_id = last.arg
          /\ walk_sessions[i].end_time # None
          /\ walk_sessions[i].end_time < now

----------------------------------------------------------------------------
(* Image retention, read off the table and the history of inserted rows *)

Retained(w) == images_of(walker_images, w)

Inserted(w) == images_of(all_images, w)

ImageWalkers == {img.walker_id : img \in all_images}

\* quality score descending, then timestamp descending
OutRanks(a, b) ==
    \/ a.quality_score > b.quality_score
    \/ (a.quality_score = b.quality_score /\ a.timestamp > b.timestamp)

(* C7. Retention bound: after every save_walker_image call, whatever the    *)
(* quality scores, a walker has at most max_images_per_walker image rows    *)
C7_RetentionBound ==
    \A w \in ImageWalkers : Cardinality(Retained(w)) <= config.max_images_per_walker

\* a walker at the limit of 2 after more insertions than that, of both qualities
C7_Witness ==
    \E w \in ImageWalkers :
        /\ config.max_images_per_walker = 2
        /\ Cardinality(Inserted(w)) > 2
        /\ Cardinality(Retained(w)) = 2
        /\ {img.quality_score : img \in Inserted(w)} = Qualities

(* C8. Retention ranking: a walker's retained images are the top            *)
(* max_images_per_walker of all images ever inserted for it, by quality     *)
(* score descending and then timestamp descending: as many as the limit     *)
(* allows, and no evicted image ranks before a retained one                 *)
C8_RetentionRanking ==
    \A w \in ImageWalkers :
        /\ Retained(w) \subseteq Inserted(w)
        /\ Cardinality(Retained(w)) =
              IF Cardinality(Inserted(w)) < config.max_images_per_walker
                THEN Cardinality(Inserted(w)) ELSE config.max_images_per_walker
        /\ \A r \in Retained(w), e \in Inserted(w) \ Retained(w) : ~OutRanks(e, r)

\* the image just inserted ranked below the cutoff and was itself evicted
C8_Witness ==
    /\ last.op = "save_walker_image"
    /\ Cardinality(Inserted(last.arg)) = config.max_images_per_walker + 1
    /\ \E e \in Inserted(last.arg) \ Retained(last.arg) :
          /\ e.timestamp = now
          /\ \A r \in Retained(last.arg) : r.timestamp < now /\ OutRanks(r, e)

----------------------------------------------------------------------------
(* The tables a detection can write, and the evidence window *)

Expired(e) == e.timestamp < now - config.cross_camera_window

\* C11: a process_detection call with has_person false returns None and
\* changes nothing: no Walker, Detection or WalkSession row is created or
\* updated, and the evidence window is neither appended to nor pruned.
C11_NoPersonNoChange ==
    [][ (last'.op = "process_detection" /\ ~last'.has_person)
          => /\ last'.ret = None
             /\ UNCHANGED <<walkers, detections, walk_sessions,
                            recent_detections, walker_images, files>> ]_vars

\* a rejected call made while the window holds an entry that a pruning at
\* this instant would have dropped
C11_Witness ==
    /\ last.op = "process_detection"
    /\ ~last.has_person
    /\ last.ret = None
    /\ \E i \in DOMAIN recent_detections : Expired(recent_detections[i])

\* C12: every process_detection call with has_person true, matched or not,
\* returns a walker id, appends exactly one Detection row and exactly one
\* evidence entry carrying that id, the call's camera and its dog flag, and
\* leaves the window pruned to the entries no older than the cutoff.
C12_AcceptedDetection ==
    [][ (last'.op = "process_detection" /\ last'.has_person)
          => LET id == last'.ret
                 row == detections'[Len(detections')]
                 entry == [walker_id |-> id, camera |-> row.camera,
                           timestamp |-> now', has_dog |-> row.has_dog]
                 cutoff == now' - config.cross_camera_window
             IN
             /\ id # None
             /\ id \in 1..Len(walkers')
             /\ detections' = Append(detections, row)
             /\ row.walker_id = id
             /\ row.event_type = "enter"
             /\ row.timestamp = now'
             /\ recent_detections' =
                   SelectSeq(Append(recent_detections, entry),
                             LAMBDA e : e.timestamp >= cutoff)
             /\ recent_detections' # <<>>
             /\ recent_detections'[Len(recent_detections')] = entry ]_vars

\* an accepted call that matched an existing walker and whose pruning
\* dropped an older entry
C12_Witness ==
    /\ last.op = "process_detection"
    /\ last.has_person
    /\ last.ret # None
    /\ \E i \in DOMAIN detections :
          i < Len(detections) /\ detections[i].walker_id = last.ret
    /\ Len(recent_detections) < Len(detections)

\* C13: a walk session goes from open to closed only through close_session:
\* whatever call is made and however much time passes, a session whose
\* end_time is null keeps it null unless the call is close_session for the
\* session's walker.
C13_ClosedOnlyByClose ==
    [][ \A i \in DOMAIN walk_sessions :
          walk_sessions[i].end_time = None
            => /\ i \in DOMAIN walk_sessions'
               /\ walk_sessions'[i].end_time # None
                    => /\ last'.op = "close_session"
                       /\ last'.arg = walk_sessions[i].walker_id ]_vars

\* a session still open after an image was saved and an exit was recorded
\* for its walker, later than the cross-camera window after its start
C13_Witness ==
    /\ last.op = "record_exit"
    /\ walker_images # {}
    /\ \E i \in DOMAIN walk_sessions :
          /\ walk_sessions[i].walker_id = last.arg
          /\ walk_sessions[i].end_time = None
          /\ now - walk_sessions[i].start_time > config.cross_camera_window

\* C14: while a walker's session is open, an accepted detection for that
\* walker makes the session's camera set the old set united with the
\* detection's camera and its path set the old set united with the
\* detection's path, so a camera and path already in the sets change nothing.
C14_SessionAccumulation ==
    [][ (/\ last'.op = "process_detection"
         /\ last'.has_person
         /\ \E i \in DOMAIN walk_sessions :
               /\ walk_sessions[i].walker_id = last'.ret
               /\ walk_sessions[i].end_time = None)
          => LET row == detections'[Len(detections')]
                 i == CHOOSE k \in DOMAIN walk_sessions :
                         /\ walk_sessions[k].walker_id = last'.ret
                         /\ walk_sessions[k].end_time = None
             IN
             /\ Split(walk_sessions'[i].cameras_visited) =
                   Split(walk_sessions[i].cameras_visited) \cup {row.camera}
             /\ Split(walk_sessions'[i].paths_taken) =
                   Split(walk_sessions[i].paths_taken) \cup {row.path_name} ]_vars

\* C15: the dog flag of a walk session is monotonic: a session whose has_dog
\* is true has it true after every later detection, exit, image or close.
C15_DogFlagMonotonic ==
    [][ \A i \in DOMAIN walk_sessions :
          walk_sessions[i].has_dog
            => /\ i \in DOMAIN walk_sessions'
               /\ walk_sessions'[i].has_dog ]_vars

\* a session with a dog that was updated by a second detection and then saw
\* an exit, whose Detection row carries has_dog false
C15_Witness ==
    /\ last.op = "record_exit"
    /\ \E i \in DOMAIN walk_sessions :
          /\ walk_sessions[i].walker_id = last.arg
          /\ walk_sessions[i].has_dog
          /\ Cardinality(Split(walk_sessions[i].cameras_visited)) = 2
    /\ ~detections[Len(detections)].has_dog

----------------------------------------------------------------------------
(* The ingestion gate *)

\* the per-camera count events the gate is to drop: the camera has no
\* configuration, the label is not person, or the payload is no positive
\* integer
ToBeDropped(topic, payload) ==
    /\ Len(topic) = 3
    /\ \/ topic[2] \notin Cameras \cup {"porch"}
       \/ topic[3] # "person"
       \/ ~(payload.type = "int" /\ payload.value > 0)

\* C16: a per-camera count event whose camera is not configured, whose
\* label is not person or whose payload is not a positive integer creates
\* no Walker, Detection, WalkSession or evidence entry, and no error is
\* raised to the event source.
C16_IngestionGate ==
    [][ (last'.op = "handle_frigate_event"
           /\ ToBeDropped(last'.topic, last'.payload))
          => /\ UNCHANGED <<walkers, detections, walk_sessions,
                            recent_detections>>
             /\ last'.outcome # "raised" ]_vars

\* C17: retention is scoped to one walker: save_walker_image for a walker,
\* and the eviction it triggers, leaves every WalkerImage row of every other
\* walker as it was, adds none to them, and removes none of their files.
C17_RetentionScoped ==
    [][ last'.op = "save_walker_image"
          => /\ \A img \in walker_images :
                   img.walker_id # last'.arg
                     => /\ img \in walker_images'
                        /\ img.image_path \in files => img.image_path \in files'
             /\ \A img \in walker_images' :
                   img.walker_id # last'.arg => img \in walker_images ]_vars

\* a save that evicted an image of its walker while another walker holds
\* as many images as the limit allows
C17_Witness ==
    /\ last.op = "save_walker_image"
    /\ Cardinality(Inserted(last.arg)) > Cardinality(Retained(last.arg))
    /\ \E w \in ImageWalkers :
          /\ w # last.arg
          /\ Cardinality(Retained(w)) = config.max_images_per_walker

\* C18: a process_detection call that finds no match adds a Walker with
\* first_seen = last_seen = the time of the call and walk count 1; a call
\* that finds a match sets the matched Walker's last_seen to the time of
\* the call and leaves its first_seen and every other Walker unchanged.
C18_WalkerWrites ==
    [][ (last'.op = "process_detection" /\ last'.has_person)
          => LET id == last'.ret IN
             IF id \notin DOMAIN walkers
               THEN /\ walkers' = Append(walkers,
                          [first_seen |-> now', last_seen |-> now',
                           total_walks |-> 1])
                    /\ id = Len(walkers')
               ELSE /\ DOMAIN walkers' = DOMAIN walkers
                    /\ walkers'[id].last_seen = now'
                    /\ walkers'[id].first_seen = walkers[id].first_seen
                    /\ \A w \in DOMAIN walkers \ {id} :
                          walkers'[w] = walkers[w] ]_vars

\* a match made later than the walker was first seen, with another walker
\* in the table
C18_Witness ==
    /\ last.op = "process_detection"
    /\ last.has_person
    /\ last.ret \in DOMAIN walkers
    /\ Len(walkers) >= 2
    /\ walkers[last.ret].first_seen < walkers[last.ret].last_seen
    /\ walkers[last.ret].last_seen = now
    /\ \E w \in DOMAIN walkers : walkers[w].last_seen < now

\* C19: the walk count of a Walker is mutated on every match: after a
\* process_detection call that matches an existing walker, that walker's
\* total_walks differs from its value before the call.
C19_WalkCountMutated ==
    [][ (/\ last'.op = "process_detection"
         /\ last'.has_person
         /\ last'.ret \in DOMAIN walkers)
          => walkers'[last'.ret].total_walks # walkers[last'.ret].total_walks ]_vars

----------------------------------------------------------------------------
(* The matcher as a function of the window, the camera, the flag and the time *)

\* the entries a detection on camera with has_dog at time t may join: inside
\* the window, same dog flag, another camera or more than the floor ago
Qualifying(camera, has_dog, t) ==
    {i \in DOMAIN recent_detections :
        /\ recent_detections[i].timestamp >= t - config.cross_camera_window
        /\ recent_detections[i].has_dog = has_dog
        /\ \/ recent_detections[i].camera # camera
           \/ /\ recent_detections[i].camera = camera
              /\ t - recent_detections[i].timestamp > DebounceFloor}

MostRecent(S) == CHOOSE i \in S : \A j \in S : j <= i

\* C20: for every window content, camera, dog flag and time, match_to_walker
\* returns the walker id of the most recent entry that is inside the window,
\* has the same dog flag and is on another camera or old enough on the same
\* one, and returns no match exactly when there is no such entry.
C20_NewestQualifyingEntry ==
    \A camera \in Cameras, has_dog \in BOOLEAN, t \in MatchInstants :
        t >= now =>
          LET Q == Qualifying(camera, has_dog, t) IN
          match_to_walker(camera, ZoneOf(camera), has_dog, t) =
             IF Q = {} THEN None
             ELSE recent_detections[MostRecent(Q)].walker_id

\* a window where two entries of different walkers qualify and the newest
\* entry of all does not, so it is skipped and the scan goes on
C20_Witness ==
    \E camera \in Cameras, has_dog \in BOOLEAN, t \in MatchInstants :
        /\ t >= now
        /\ \E i, j \in Qualifying(camera, has_dog, t) :
              recent_detections[i].walker_id # recent_detections[j].walker_id
        /\ Len(recent_detections) \notin Qualifying(camera, has_dog, t)

----------------------------------------------------------------------------
(* Pruning of the evidence window *)

\* the positions of the window whose entries are no older than the cutoff
\* that the clock reading of the next call gives
Surviving == {i \in DOMAIN recent_detections :
                recent_detections[i].timestamp >= now' - config.cross_camera_window}

\* the k-th of the surviving positions, in list order
NthSurviving(k) ==
    CHOOSE i \in Surviving : Cardinality({j \in Surviving : j <= i}) = k

\* C21: pruning removes exactly the entries older than now minus
\* cross_camera_window and keeps the others in their order; it runs after
\* every append, so after an accepted process_detection every entry of the
\* window is at most cross_camera_window old and the new entry is present.
C21_PruningExact ==
    [][ (last'.op = "process_detection" /\ last'.has_person)
          => /\ Len(recent_detections') = Cardinality(Surviving) + 1
             /\ \A k \in 1..Cardinality(Surviving) :
                   recent_detections'[k] = recent_detections[NthSurviving(k)]
             /\ recent_detections'[Len(recent_detections')].timestamp = now'
             /\ recent_detections'[Len(recent_detections')].walker_id = last'.ret
             /\ \A k \in DOMAIN recent_detections' :
                   now' - recent_detections'[k].timestamp
                      <= config.cross_camera_window ]_vars

\* after an accepted call the window holds an entry exactly as old as the
\* window allows, and an older entry has been removed
C21_Witness ==
    /\ last.op = "process_detection"
    /\ last.has_person
    /\ \E k \in DOMAIN recent_detections :
          now - recent_detections[k].timestamp = config.cross_camera_window
    /\ Len(recent_detections) < Cardinality(EnterDetections)
    /\ recent_detections[Len(recent_detections)].timestamp = now

----------------------------------------------------------------------------
(* Failure isolation *)

\* the window entries equal to e, and the stored detections of that event
EntriesLike(e) == {k \in DOMAIN recent_detections : recent_detections[k] = e}

DetectionsOf(e) ==
    {j \in EnterDetections :
        /\ detections[j].walker_id = e.walker_id
        /\ detections[j].camera = e.camera
        /\ detections[j].timestamp = e.timestamp
        /\ detections[j].has_dog = e.has_dog}

\* every entry of the window has its Walker and its Detection stored
WindowBacked ==
    \A k \in DOMAIN recent_detections :
        LET e == recent_detections[k] IN
        /\ e.walker_id \in DOMAIN walkers
        /\ Cardinality(EntriesLike(e)) <= Cardinality(DetectionsOf(e))

\* C22: when a storage write of process_detection fails, the window holds
\* only entries whose Walker and Detection are stored, and it is either
\* what it was before the call or that with the one complete entry of the
\* call appended and the expired entries pruned.
C22_FailureIsolation ==
    [][ (last'.op = "process_detection" /\ last'.failed # "none")
          => /\ WindowBacked'
             /\ \/ recent_detections' = recent_detections
                \/ /\ recent_detections' # <<>>
                   /\ LET e == recent_detections'[Len(recent_detections')] IN
                      /\ e.timestamp = now'
                      /\ e = [walker_id |-> detections'[Len(detections')].walker_id,
                              camera |-> detections'[Len(detections')].camera,
                              timestamp |-> detections'[Len(detections')].timestamp,
                              has_dog |-> detections'[Len(detections')].has_dog]
                      /\ Len(detections') = Len(detections) + 1
                      /\ recent_detections' =
                            SelectSeq(Append(recent_detections, e),
                               LAMBDA d : d.timestamp >=
                                            now' - config.cross_camera_window) ]_vars

\* the session commit failed after the entry was appended, and an earlier
\* call left a Walker whose Detection commit failed
C22_Witness ==
    /\ last.op = "process_detection"
    /\ last.failed = "session"
    /\ recent_detections # <<>>
    /\ recent_detections[Len(recent_detections)].timestamp = now
    /\ \E w \in DOMAIN walkers :
          \A j \in DOMAIN detections : detections[j].walker_id # w

\* C23: no call of the tracker deletes a Walker or deletes or changes a
\* stored Detection: both tables only grow, and each Detection keeps the
\* walker id, camera, timestamp and dog flag it was created with.
C23_WalkersAndDetectionsGrow ==
    [][ /\ Len(walkers') >= Len(walkers)
        /\ Len(detections') >= Len(detections)
        /\ \A j \in DOMAIN detections :
              /\ detections'[j].walker_id = detections[j].walker_id
              /\ detections'[j].camera = detections[j].camera
              /\ detections'[j].timestamp = detections[j].timestamp
              /\ detections'[j].has_dog = detections[j].has_dog
              /\ detections'[j].event_type = detections[j].event_type ]_vars

\* a walker with a dog was seen, left and had an image saved at a later
\* time, and its session was then closed
C23_Witness ==
    /\ last.op = "close_session"
    /\ walker_images # {}
    /\ \E i, j \in DOMAIN detections :
          /\ i < j
          /\ detections[i].event_type = "enter"
          /\ detections[i].has_dog
          /\ detections[j].event_type = "leave"
          /\ detections[j].walker_id = detections[i].walker_id
          /\ detections[j].timestamp > detections[i].timestamp

----------------------------------------------------------------------------
(* Eviction *)

RowsOf(images, w) == {img \in images : img.walker_id = w}

\* C24: eviction is complete: when save_walker_image enforces the limit,
\* every image of the walker that ranks beyond max_images_per_walker has
\* its file deleted and its row removed, and every image within the limit
\* keeps its row.
C24_EvictionComplete ==
    [][ last'.op = "save_walker_image"
          => \E n \in all_images' :
               /\ n.walker_id = last'.arg
               /\ n.timestamp = now'
               /\ n \notin walker_images
               /\ LET mine == RowsOf(walker_images, last'.arg) \cup {n}
                      after == RowsOf(walker_images', last'.arg)
                      limit == config.max_images_per_walker
                  IN
                  /\ after \subseteq mine
                  /\ Cardinality(after) =
                        IF Cardinality(mine) < limit
                          THEN Cardinality(mine) ELSE limit
                  /\ \A k \in after, e \in mine \ after : ~OutRanks(e, k)
                  /\ \A e \in mine \ after : e.image_path \notin files'
                  /\ files' = (files \cup {n.image_path})
                                 \ {e.image_path : e \in mine \ after} ]_vars

\* a save at the limit of 2 that evicted an older image whose file was on
\* disk, while both retained images have their files
C24_Witness ==
    /\ last.op = "save_walker_image"
    /\ config.max_images_per_walker = 2
    /\ Cardinality(RowsOf(walker_images, last.arg)) = 2
    /\ \A r \in RowsOf(walker_images, last.arg) : r.image_path \in files
    /\ \E e \in RowsOf(all_images, last.arg) \ walker_images :
          /\ e.image_path \notin files
          /\ e.timestamp < now

----------------------------------------------------------------------------
(* Closed to open *)

ClosedSessions(w) ==
    {i \in DOMAIN walk_sessions :
        walk_sessions[i].walker_id = w /\ walk_sessions[i].end_time # None}

HasOpenSession(w) ==
    \E i \in DOMAIN walk_sessions :
        walk_sessions[i].walker_id = w /\ walk_sessions[i].end_time = None

\* C25: after close_session has closed a walker's session, the next
\* accepted detection resolved to that walker opens a new session with
\* start_time the time of the call, cameras {camera}, paths {path} and the
\* detection's dog flag; a closed session's end_time, camera set, path set
\* and dog flag never change again.
C25_ClosedToOpen ==
    [][ /\ \A i \in DOMAIN walk_sessions :
              walk_sessions[i].end_time # None
                => /\ i \in DOMAIN walk_sessions'
                   /\ walk_sessions'[i].end_time = walk_sessions[i].end_time
                   /\ Split(walk_sessions'[i].cameras_visited) =
                         Split(walk_sessions[i].cameras_visited)
                   /\ Split(walk_sessions'[i].paths_taken) =
                         Split(walk_sessions[i].paths_taken)
                   /\ walk_sessions'[i].has_dog = walk_sessions[i].has_dog
        /\ (/\ last'.op = "process_detection"
            /\ last'.has_person
            /\ ClosedSessions(last'.ret) # {}
            /\ ~HasOpenSession(last'.ret))
              => LET row == detections'[Len(detections')]
                     new == walk_sessions'[Len(walk_sessions')]
                 IN
                 /\ Len(walk_sessions') = Len(walk_sessions) + 1
                 /\ new.walker_id = last'.ret
                 /\ new.start_time = now'
                 /\ new.end_time = None
                 /\ Split(new.cameras_visited) = {row.camera}
                 /\ Split(new.paths_taken) = {row.path_name}
                 /\ new.has_dog = row.has_dog ]_vars

\* C26: every walker id carries a single dog value: all evidence entries
\* and all enter Detections of one walker have the same dog flag, and so
\* has each of the walker's sessions.
C26_SingleDogValue ==
    \A i \in EnterDetections :
        LET w == detections[i].walker_id
            dog == detections[i].has_dog
        IN
        /\ \A j \in EnterDetections :
              detections[j].walker_id = w => detections[j].has_dog = dog
        /\ \A k \in DOMAIN recent_detections :
              recent_detections[k].walker_id = w
                => recent_detections[k].has_dog = dog
        /\ \A s \in DOMAIN walk_sessions :
              walk_sessions[s].walker_id = w => walk_sessions[s].has_dog = dog

\* a walker with a dog seen on two cameras next to a walker without one
C26_Witness ==
    /\ \E i, j \in EnterDetections :
          /\ i # j
          /\ detections[i].walker_id = detections[j].walker_id
          /\ detections[i].camera # detections[j].camera
          /\ detections[i].has_dog
    /\ \E i \in EnterDetections : ~detections[i].has_dog
    /\ \E s \in DOMAIN walk_sessions : walk_sessions[s].has_dog

----------------------------------------------------------------------------
(* A tracker that never prunes keeps one entry per accepted detection *)

\* the entries of the whole log that a detection on camera with has_dog at
\* time t may join
QualifyingInLog(camera, has_dog, t) ==
    {i \in EnterDetections :
        /\ detections[i].timestamp >= t - config.cross_camera_window
        /\ detections[i].has_dog = has_dog
        /\ \/ detections[i].camera # camera
           \/ t - detections[i].timestamp > DebounceFloor}

\* C27: pruning is transparent to matching: with a clock that never goes
\* back, the id match_to_walker returns from the pruned window is the one
\* it would return from the list of all entries ever appended, for every
\* camera, dog flag and later time.
C27_PruningTransparent ==
    \A camera \in Cameras, has_dog \in BOOLEAN, t \in MatchInstants :
        t >= now =>
          LET Q == QualifyingInLog(camera, has_dog, t) IN
          match_to_walker(camera, ZoneOf(camera), has_dog, t) =
             IF Q = {} THEN None
             ELSE detections[CHOOSE i \in Q : \A j \in Q : j <= i].walker_id

\* entries have been pruned, one of them with the flag and another camera
\* than a detection that still finds a match in the window
C27_Witness ==
    /\ Len(recent_detections) < Cardinality(EnterDetections)
    /\ \E camera \in Cameras, has_dog \in BOOLEAN, t \in MatchInstants :
          /\ t >= now
          /\ match_to_walker(camera, ZoneOf(camera), has_dog, t) # None
          /\ \E i \in EnterDetections :
                /\ detections[i].timestamp < now - config.cross_camera_window
                /\ detections[i].has_dog = has_dog
                /\ detections[i].camera # camera
                /\ detections[i].walker_id #
                      match_to_walker(camera, ZoneOf(camera), has_dog, t)

\* C28: eviction never deletes a file that a retained image row still
\* references: after any captures and saves, two in the same second for
\* the same walker, camera and type included, the file of every retained
\* WalkerImage row is on disk.
C28_RetainedFilesExist ==
    \A img \in walker_images : img.image_path \in files

----------------------------------------------------------------------------
(* The dog flag through the application *)

NoDogStored ==
    /\ \A j \in DOMAIN detections : ~detections[j].has_dog
    /\ \A k \in DOMAIN recent_detections : ~recent_detections[k].has_dog
    /\ \A s \in DOMAIN walk_sessions : ~walk_sessions[s].has_dog

----------------------------------------------------------------------------
(* The same-camera branch *)

Age(k, t) == t - recent_detections[k].timestamp

InWindowAt(t) ==
    {k \in DOMAIN recent_detections : Age(k, t) <= config.cross_camera_window}

\* C30: the same-camera branch is bounded by the window: a same-camera,
\* same-dog entry is matched only when its age is more than 60 seconds and
\* at most cross_camera_window; so with a window of 60 seconds or less a
\* detection whose in-window evidence is all on its own camera gets no match.
C30_SameCameraBounded ==
    \A camera \in Cameras, has_dog \in BOOLEAN, t \in MatchInstants :
        t >= now =>
          LET r == match_to_walker(camera, ZoneOf(camera), has_dog, t)
              mine == {k \in InWindowAt(t) :
                         /\ recent_detections[k].walker_id = r
                         /\ recent_detections[k].has_dog = has_dog}
          IN
          /\ (r # None /\ \A k \in mine : recent_detections[k].camera = camera)
               => \E k \in mine :
                     /\ Age(k, t) > DebounceFloor
                     /\ Age(k, t) <= config.cross_camera_window
          /\ (/\ config.cross_camera_window <= DebounceFloor
              /\ \A k \in InWindowAt(t) : recent_detections[k].camera = camera)
               => r = None

\* a match made on the same camera with an entry exactly as old as the
\* window allows, while a younger entry of that camera is in the window
C30_Witness ==
    \E camera \in Cameras, has_dog \in BOOLEAN, t \in MatchInstants :
        /\ t >= now
        /\ match_to_walker(camera, ZoneOf(camera), has_dog, t) # None
        /\ \A k \in InWindowAt(t) : recent_detections[k].camera = camera
        /\ \E k \in InWindowAt(t) :
              /\ Age(k, t) = config.cross_camera_window
              /\ recent_detections[k].walker_id =
                    match_to_walker(camera, ZoneOf(camera), has_dog, t)
        /\ \E k \in InWindowAt(t) :
              /\ Age(k, t) <= DebounceFloor
              /\ recent_detections[k].has_dog = has_dog

----------------------------------------------------------------------------
(* Referential integrity *)

\* every evidence entry, enter Detection and WalkSession names a stored Walker
Referenced ==
    /\ \A k \in DOMAIN recent_detections :
          recent_detections[k].walker_id \in DOMAIN walkers
    /\ \A j \in EnterDetections : detections[j].walker_id \in DOMAIN walkers
    /\ \A s \in DOMAIN walk_sessions :
          walk_sessions[s].walker_id \in DOMAIN walkers

\* C31: through process_detection and close_session every evidence entry,
\* every enter Detection and every WalkSession references a walker id that
\* has a Walker record, and the id given to a new walker differs from the
\* ids of all walkers created before.
C31_ReferentialIntegrity ==
    [][ /\ Referenced'
        /\ (/\ last'.op = "process_detection"
            /\ last'.has_person
            /\ Len(walkers') > Len(walkers))
              => /\ last'.ret \notin DOMAIN walkers
                 /\ last'.ret \in DOMAIN walkers'
                 /\ \A j \in DOMAIN detections :
                       detections[j].walker_id # last'.ret
                 /\ \A s \in DOMAIN walk_sessions :
                       walk_sessions[s].walker_id # last'.ret ]_vars

\* a second walker was just created while an earlier walker has a closed and
\* a reopened session
C31_Witness ==
    /\ last.op = "process_detection"
    /\ last.ret = 2
    /\ Len(walkers) = 2
    /\ \E s, u \in DOMAIN walk_sessions :
          /\ walk_sessions[s].walker_id = 1
          /\ walk_sessions[u].walker_id = 1
          /\ walk_sessions[s].end_time # None
          /\ walk_sessions[u].end_time = None
    /\ \E k \in DOMAIN recent_detections : recent_detections[k].walker_id = 1

\* C32: record_exit only appends one Detection with event_type leave and
\* dog flag false for the given walker id; the evidence window, every
\* WalkSession and every Walker, last_seen included, stay as they were, so
\* the exit changes the outcome of no later match.
C32_RecordExitFrame ==
    [][ last'.op = "record_exit"
          => /\ Len(detections') = Len(detections) + 1
             /\ \A j \in DOMAIN detections : detections'[j] = detections[j]
             /\ detections'[Len(detections')].walker_id = last'.arg
             /\ detections'[Len(detections')].event_type = "leave"
             /\ ~detections'[Len(detections')].has_dog
             /\ detections'[Len(detections')].timestamp = now'
             /\ recent_detections' = recent_detections
             /\ walk_sessions' = walk_sessions
             /\ walkers' = walkers
             /\ walker_images' = walker_images ]_vars

\* an exit recorded for a walker with a dog, later than the walker was last
\* seen, while its entry is in the window and its session is open
C32_Witness ==
    /\ last.op = "record_exit"
    /\ walkers[last.arg].last_seen < now
    /\ detections[Len(detections)].event_type = "leave"
    /\ \E k \in DOMAIN recent_detections :
          /\ recent_detections[k].walker_id = last.arg
          /\ recent_detections[k].has_dog
    /\ \E s \in DOMAIN walk_sessions :
          /\ walk_sessions[s].walker_id = last.arg
          /\ walk_sessions[s].end_time = None
          /\ walk_sessions[s].has_dog

=============================================================================
